---- MODULE Spec2Model ----
(***************************************************************************)
(* Multi-variant OCR pipeline of the useTensorflowTextExtraction hook:     *)
(* the process-wide detection model and recognition worker pool, the hook  *)
(* instances that mount and unmount, and extractTextFromImage with its     *)
(* variant generation, region detection, recognition loops, aggregation    *)
(* and progress reporting.                                                 *)
(*                                                                         *)
(* Text is a sequence of one-character strings; an image is a record; one  *)
(* action is the code that runs between two suspension points (awaits).    *)
(***************************************************************************)
EXTENDS Integers, Sequences, FiniteSets, TLC

\* ---------------------------------------------------------------- bounds

\* number of enhancement recipes of createEnhancedImageVariants that the
\* model runs (the source declares 11; every one is the same awaited call)
NumRecipes == 2

\* longest list of variant results handed to the aggregation on its own
MaxResults == 3

\* most lines of a text handed to removeDuplicateLines on its own
MaxLines == 3

\* most words of a line handed to postProcessText on its own
MaxWords == 3

\* longest list of regions handed to mergeAdjacentRegions on its own
MaxRegions == 3

\* longest list of region results handed to the grouping on its own
MaxRegionResults == 2

\* number of extractTextFromImage invocations per hook instance
MaxRuns == 1

\* the catalog file holds at most this many vectors
MaxVectors == 2

\* the vectors whose similarity is computed have at most this many dimensions
MaxDim == 2

\* --------------------------------------------------------- program constants

MAX_WORKERS == 2

MinRegionSize == 20

NULL == "null"

\* the hook instances: the page renders one panel that uses the hook
\* (Result.tsx, line 193)
Hooks == {1}

Recipes == 1 .. NumRecipes

\* the module-level preload is loader 0, the mount effect of hook h is loader h
LoaderIds == {0} \cup Hooks

\* ------------------------------------------------------------------ state

VARIABLES
  cocoModel,           \* module-level detection model: NULL or "model"
  modelLoads,          \* number of cocoSsd.load calls that completed
  workersInitialized,  \* module-level flag
  scheduler,           \* [workers: number added, terminated: BOOLEAN]
  loader,              \* position of each preload call of loadModels
  winit,               \* position of each mount-effect call of initializeWorkers
  life,                \* hook instance: "unmounted", "mounted", "gone"
  hook,                \* useState values of each hook instance: progress, error,
                       \* isExtracting, extractedText, textRegions, bestImageVariant
  ext,                 \* locals and position of the extractTextFromImage call
  fn,                  \* a function of the module applied on its own: its name,
                       \* its argument and, once it returned, its result
  productVectors       \* the product catalog of lib/vectorDatabase.ts

shared == <<cocoModel, modelLoads, workersInitialized, scheduler>>

\* the state of the text extraction hook and of its module
extraction == <<cocoModel, modelLoads, workersInitialized, scheduler,
                loader, winit, life, hook, ext>>

program == <<cocoModel, modelLoads, workersInitialized, scheduler,
             loader, winit, life, hook, ext, productVectors>>

vars == <<cocoModel, modelLoads, workersInitialized, scheduler,
          loader, winit, life, hook, ext, fn, productVectors>>

\* ------------------------------------------------------------- inputs

\* the photographs handed to extractTextFromImage (data URL and its size)
InputImages == { [data |-> "photo", recipe |-> 0, width |-> 100, height |-> 100] }

NoImage == [data |-> "none", recipe |-> 0, width |-> 0, height |-> 0]

\* m.progress values of the recognizer's logger callback, in hundredths
LoggerProgress == {0, 100}

\* what one Tesseract.recognize call resolves with: data.text, data.confidence
\* (a confidence that is missing counts as 0, line 354)
OcrResults == { [text |-> <<" ">>, confidence |-> 0],
                [text |-> <<"a", "b", " ">>, confidence |-> 80] }

\* ------------------------------------------------------ variant generator

\* enhanceImageForTextRecognition resolves with the rendition of one recipe
Enhance(img, r) == [img EXCEPT !.recipe = r]

\* createEnhancedImageVariants with a catch that returns no variant at all
CreateEnhancedImageVariants_EmptyOnFailure(img, failing) ==
  IF failing = {}
    THEN <<img>> \o [r \in Recipes |-> Enhance(img, r)]
    ELSE <<>>

\* createEnhancedImageVariants: the original, then one awaited rendition per
\* recipe in declared order inside a single try; the catch returns
\* [imageData]. failing = the recipes whose promise rejects.
CreateEnhancedImageVariants(img, failing) ==
  IF failing = {}
    THEN <<img>> \o [r \in Recipes |-> Enhance(img, r)]
    ELSE <<img>>

\* ---------------------------------------------------------------- text

LowerCase == <<"a","b","c","d","e","f","g","h","i","j","k","l","m",
               "n","o","p","q","r","s","t","u","v","w","x","y","z">>

UpperCase == <<"A","B","C","D","E","F","G","H","I","J","K","L","M",
               "N","O","P","Q","R","S","T","U","V","W","X","Y","Z">>

Digits == {"0","1","2","3","4","5","6","7","8","9"}

IsLower(c) == \E k \in 1 .. 26 : LowerCase[k] = c

IsUpper(c) == \E k \in 1 .. 26 : UpperCase[k] = c

IsDigit(c) == c \in Digits

\* \s of a JavaScript regular expression, over the characters of the model
IsSpace(c) == c \in {" ", "\n", "\t"}

\* \w of a JavaScript regular expression
IsWord(c) == IsLower(c) \/ IsUpper(c) \/ IsDigit(c) \/ c = "_"

\* String.prototype.toLowerCase on one character
ToLowerChar(c) ==
  IF IsUpper(c) THEN LowerCase[CHOOSE k \in 1 .. 26 : UpperCase[k] = c] ELSE c

ToLowerCase(s) == [k \in 1 .. Len(s) |-> ToLowerChar(s[k])]

\* String.prototype.trim
RECURSIVE TrimStart(_)
TrimStart(s) ==
  IF s /= <<>> /\ IsSpace(Head(s)) THEN TrimStart(Tail(s)) ELSE s

RECURSIVE TrimEnd(_)
TrimEnd(s) ==
  IF s /= <<>> /\ IsSpace(s[Len(s)]) THEN TrimEnd(SubSeq(s, 1, Len(s) - 1)) ELSE s

Trim(s) == TrimEnd(TrimStart(s))

\* s.replace(/\s+/g, ' ')
RECURSIVE CollapseSpaces(_)
CollapseSpaces(s) ==
  IF s = <<>> THEN <<>>
  ELSE IF IsSpace(Head(s))
    THEN <<" ">> \o CollapseSpaces(TrimStart(s))
    ELSE <<Head(s)>> \o CollapseSpaces(Tail(s))

\* String.prototype.split('\n'): a sequence of lines (one line for '')
RECURSIVE SplitLines(_)
SplitLines(s) ==
  IF \A k \in 1 .. Len(s) : s[k] /= "\n" THEN <<s>>
  ELSE LET n == CHOOSE k \in 1 .. Len(s) :
                  s[k] = "\n" /\ \A j \in 1 .. k - 1 : s[j] /= "\n"
       IN  <<SubSeq(s, 1, n - 1)>> \o SplitLines(SubSeq(s, n + 1, Len(s)))

\* Array.prototype.join(sep)
RECURSIVE Join(_, _)
Join(parts, sep) ==
  IF parts = <<>> THEN <<>>
  ELSE IF Len(parts) = 1 THEN parts[1]
  ELSE parts[1] \o sep \o Join(Tail(parts), sep)

\* String.prototype.includes
Includes(s, t) ==
  \E k \in 0 .. Len(s) - Len(t) : SubSeq(s, k + 1, k + Len(t)) = t

\* Math.round(a / b) for a >= 0, b > 0
RoundDiv(a, b) == (2 * a + b) \div (2 * b)

\* ---------------------------------------------------------- deduplication

\* the scan of lines 543-557 with equality in place of containment
FirstSimilar_EqualOnly(seenLines, normalized) ==
  LET hits == { k \in 1 .. Len(seenLines) : normalized = seenLines[k] }
  IN  IF hits = {} THEN 0 ELSE CHOOSE k \in hits : \A j \in hits : k <= j

\* lines 543-557: index of the first kept line that contains, or is contained
\* in, the normalized line; 0 when there is none
FirstSimilar(seenLines, normalized) ==
  LET hits == { k \in 1 .. Len(seenLines) :
                  Includes(normalized, seenLines[k]) \/ Includes(seenLines[k], normalized) }
  IN  IF hits = {} THEN 0 ELSE CHOOSE k \in hits : \A j \in hits : k <= j

\* the loop of lines 533-563 over the remaining lines
RECURSIVE DedupLoop(_, _, _)
DedupLoop(lines, uniqueLines, seenLines) ==
  IF lines = <<>> THEN uniqueLines
  ELSE
    LET trimmed == Trim(Head(lines))
        normalized == CollapseSpaces(ToLowerCase(trimmed))
        k == FirstSimilar(seenLines, normalized)
    IN  IF trimmed = <<>> THEN DedupLoop(Tail(lines), uniqueLines, seenLines)
        ELSE IF k = 0
          THEN DedupLoop(Tail(lines), Append(uniqueLines, trimmed),
                         Append(seenLines, normalized))
        ELSE IF Len(trimmed) > Len(uniqueLines[k])
          THEN DedupLoop(Tail(lines), [uniqueLines EXCEPT ![k] = trimmed],
                         [seenLines EXCEPT ![k] = normalized])
        ELSE DedupLoop(Tail(lines), uniqueLines, seenLines)

removeDuplicateLines(text) ==
  IF text = <<>> THEN <<>>
  ELSE Join(DedupLoop(SplitLines(text), <<>>, <<>>), <<"\n">>)

\* ---------------------------------------------------------- post-processing

\* s.replace(/x(?=...)/g, r) for a one-character match decided by Hit(s, k)
ReplaceChar(s, Hit(_, _), r) ==
  [k \in 1 .. Len(s) |-> IF Hit(s, k) THEN r ELSE s[k]]

\* s.replace(/ab/g, r) for a two-character literal, scanning left to right
RECURSIVE ReplacePair(_, _, _, _)
ReplacePair(s, a, b, r) ==
  IF Len(s) < 2 THEN s
  ELSE IF s[1] = a /\ s[2] = b
    THEN r \o ReplacePair(SubSeq(s, 3, Len(s)), a, b, r)
    ELSE <<s[1]>> \o ReplacePair(Tail(s), a, b, r)

NextIsDigit(s, k) == k < Len(s) /\ IsDigit(s[k + 1])

NextIsLower(s, k) == k < Len(s) /\ IsLower(s[k + 1])

\* /\bI\b(?!\s*[a-z])/ matches at k
StandaloneI(s, k) ==
  /\ s[k] = "I"
  /\ (k = 1 \/ ~IsWord(s[k - 1]))
  /\ (k = Len(s) \/ ~IsWord(s[k + 1]))
  /\ LET rest == TrimStart(SubSeq(s, k + 1, Len(s)))
     IN  ~(rest /= <<>> /\ IsLower(rest[1]))

\* lines 576-590: the substitutions of one line, in the declared order
ProcessLine(line) ==
  LET p0  == CollapseSpaces(Trim(line))
      p1  == ReplacePair(p0, "|", "l", <<"I">>)
      p2  == ReplaceChar(p1, LAMBDA s, k : s[k] \in {"0", "O"} /\ NextIsLower(s, k), "O")
      p3  == ReplaceChar(p2, LAMBDA s, k : s[k] = "l" /\ NextIsDigit(s, k), "1")
      p4  == ReplaceChar(p3, StandaloneI, "1")
      p5  == ReplaceChar(p4, LAMBDA s, k : s[k] = "S" /\ NextIsDigit(s, k), "5")
      p6  == ReplaceChar(p5, LAMBDA s, k : s[k] = "Z" /\ NextIsDigit(s, k), "2")
      p7  == ReplaceChar(p6, LAMBDA s, k : s[k] = "!" /\ NextIsDigit(s, k), "1")
      p8  == ReplacePair(p7, "r", "n", <<"m">>)
      p9  == ReplacePair(p8, "c", "l", <<"d">>)
      p10 == ReplacePair(p9, "n", "n", <<"n", "n">>)
  IN  ReplacePair(p10, "i", "i", <<"n">>)

postProcessText(text) ==
  IF text = <<>> THEN <<>>
  ELSE LET processedLines == [k \in 1 .. Len(SplitLines(text)) |->
                                ProcessLine(SplitLines(text)[k])]
       IN  Join(SelectSeq(processedLines, LAMBDA line : Trim(line) /= <<>>), <<"\n">>)

\* ------------------------------------------------------- region detector

\* lines 97-99: the classes kept from the object detector's predictions
TextClasses == {"book", "cell phone", "laptop", "tv", "remote", "keyboard", "mouse", "monitor"}

\* what cocoModel.detect resolves with
PredictionLists ==
  { <<>>,
    << [class |-> "person", bbox |-> <<0, 0, 100, 100>>] >>,
    << [class |-> "laptop", bbox |-> <<-5, 10, 60, 40>>],
       [class |-> "remote", bbox |-> <<0, 0, 10, 10>>],
       [class |-> "tv", bbox |-> <<20, 70, 90, 40>>] >> }

\* the cells (gx, gy) of the 8x8 grid whose brightness deviation exceeds
\* smallTextThreshold, which is what the pixel data decides in lines 146-196
ContrastCellSets == { {}, {<<0, 0>>, <<3, 4>>} }

fineGridSize == 8

Region(x, y, w, h) == [x |-> x, y |-> y, width |-> w, height |-> h]

\* lines 271-272
Overlaps(r1, r2) ==
  /\ r1.x < r2.x + r2.width
  /\ r1.x + r1.width > r2.x
  /\ r1.y < r2.y + r2.height
  /\ r1.y + r1.height > r2.y

Min(a, b) == IF a <= b THEN a ELSE b

Max(a, b) == IF a >= b THEN a ELSE b

\* lines 276-284
Union(r1, r2) ==
  LET minX == Min(r1.x, r2.x)
      minY == Min(r1.y, r2.y)
      maxX == Max(r1.x + r1.width, r2.x + r2.width)
      maxY == Max(r1.y + r1.height, r2.y + r2.height)
  IN  Region(minX, minY, maxX - minX, maxY - minY)

RemoveAt(seq, j) == SubSeq(seq, 1, j - 1) \o SubSeq(seq, j + 1, Len(seq))

\* the inner loop of lines 261-292 from index j on. regions[1] is the
\* object that result[0] aliases, so a merge into r1 shows in regions[1].
RECURSIVE MergeScan(_, _, _)
MergeScan(regions, j, merged) ==
  IF j > Len(regions) THEN [regions |-> regions, merged |-> merged]
  ELSE
    LET r1 == regions[1]
        r2 == regions[j]
    IN  IF r1 = r2 THEN MergeScan(regions, j + 1, merged)
        ELSE IF Overlaps(r1, r2)
          THEN MergeScan(RemoveAt([regions EXCEPT ![1] = Union(r1, r2)], j), j, TRUE)
        ELSE MergeScan(regions, j + 1, merged)

\* one pass of the loop of lines 260-293 in place of the while loop, all
\* the regions that are left being returned
MergeWhile_SinglePass(regions) == MergeScan(regions, 1, FALSE).regions

\* the while loop of lines 257-294; result never holds more than result[0]
RECURSIVE MergeWhile(_)
MergeWhile(regions) ==
  LET pass == MergeScan(regions, 1, FALSE)
  IN  IF pass.merged THEN MergeWhile(pass.regions) ELSE <<pass.regions[1]>>

mergeAdjacentRegions(regions) ==
  IF Len(regions) <= 1 THEN regions ELSE MergeWhile(regions)

\* lines 129-242; a cell of no pixels has a NaN deviation and is never kept
detectPotentialTextAreas(cells, width, height) ==
  LET fineCellWidth == width \div fineGridSize
      fineCellHeight == height \div fineGridSize
      grid == [k \in 1 .. fineGridSize * fineGridSize |->
                 <<(k - 1) \div fineGridSize, (k - 1) % fineGridSize>>]
      kept == SelectSeq(grid, LAMBDA c :
                c \in cells /\ fineCellWidth > 0 /\ fineCellHeight > 0)
      cellRegions == [k \in 1 .. Len(kept) |->
                        Region(kept[k][1] * fineCellWidth, kept[k][2] * fineCellHeight,
                               fineCellWidth, fineCellHeight)]
      bands == << Region(0, 0, width, height \div 5),
                  Region(0, (height * 4) \div 5, width, height \div 5),
                  Region(0, 0, width \div 5, height),
                  Region((width * 4) \div 5, 0, width \div 5, height),
                  Region(0, 0, width, height) >>
  IN  mergeAdjacentRegions(cellRegions \o bands)

\* lines 94-125, after cocoModel.detect resolved with predictions; hasCtx is
\* whether canvas.getContext('2d') returned a context
detectTextRegions(predictions, cells, hasCtx, img) ==
  LET textRelatedObjects == SelectSeq(predictions, LAMBDA p : p.class \in TextClasses)
      potential == detectPotentialTextAreas(cells, img.width, img.height)
  IN  IF textRelatedObjects = <<>> /\ hasCtx
        THEN [k \in 1 .. Len(potential) |->
                [class |-> "potential-text",
                 bbox |-> <<potential[k].x, potential[k].y,
                            potential[k].width, potential[k].height>>]]
        ELSE textRelatedObjects

\* --------------------------------------------------------------- aggregator

Quality(r) == Len(r.text) * r.confidence

\* the reduce of lines 438-442 with a comparison that is not strict
RECURSIVE ReduceBest_LastOfEqual(_, _)
ReduceBest_LastOfEqual(best, rest) ==
  IF rest = <<>> THEN best
  ELSE ReduceBest_LastOfEqual(
         IF Quality(Head(rest)) >= Quality(best) THEN Head(rest) ELSE best, Tail(rest))

\* lines 438-442: reduce with a strict comparison, starting at the first result
RECURSIVE ReduceBest(_, _)
ReduceBest(best, rest) ==
  IF rest = <<>> THEN best
  ELSE ReduceBest(IF Quality(Head(rest)) > Quality(best) THEN Head(rest) ELSE best,
                  Tail(rest))

Texts(results) == [k \in 1 .. Len(results) |-> results[k].text]

\* lines 455-459: y > img.height / 2
BottomRegions(regionTexts, imgHeight) ==
  SelectSeq(regionTexts, LAMBDA r : 2 * r.bbox[2] > imgHeight)

\* lines 461-465: y < img.height / 2
TopRegions(regionTexts, imgHeight) ==
  SelectSeq(regionTexts, LAMBDA r : 2 * r.bbox[2] < imgHeight)

\* lines 448-477: the top and bottom group transcripts that are not empty
AllRegionTexts(regionTexts, imgHeight) ==
  LET bottomRegions == BottomRegions(regionTexts, imgHeight)
      topRegions == TopRegions(regionTexts, imgHeight)
      topText == Trim(Join(Texts(topRegions), <<" ">>))
      bottomText == Trim(Join(Texts(bottomRegions), <<" ">>))
  IN  (IF topRegions /= <<>> /\ topText /= <<>> THEN <<topText>> ELSE <<>>)
      \o (IF bottomRegions /= <<>> /\ bottomText /= <<>> THEN <<bottomText>> ELSE <<>>)

\* line 480
FullImageText(variantResults) ==
  IF variantResults = <<>> THEN <<>>
  ELSE Trim(ReduceBest(variantResults[1], variantResults).text)

\* the lines are deduplicated when there are region transcripts only, too
CombineText_DedupAlways(variantResults, regionTexts, imgHeight) ==
  LET allRegionTexts == AllRegionTexts(regionTexts, imgHeight)
      fullImageText == FullImageText(variantResults)
  IN  IF allRegionTexts /= <<>>
        THEN removeDuplicateLines(
               Join(SelectSeq(Append(allRegionTexts, fullImageText),
                              LAMBDA t : t /= <<>>), <<"\n", "\n">>))
      ELSE fullImageText

\* lines 435-500: finalText before post-processing
CombineText(variantResults, regionTexts, imgHeight) ==
  LET allRegionTexts == AllRegionTexts(regionTexts, imgHeight)
      fullImageText == FullImageText(variantResults)
  IN  IF allRegionTexts /= <<>> /\ fullImageText /= <<>>
        THEN removeDuplicateLines(
               Join(SelectSeq(Append(allRegionTexts, fullImageText),
                              LAMBDA t : t /= <<>>), <<"\n", "\n">>))
      ELSE IF allRegionTexts /= <<>> THEN Join(allRegionTexts, <<"\n", "\n">>)
      ELSE fullImageText

\* ------------------------------------------------- process-wide singletons

\* no extractTextFromImage call was made yet. dispatched, completed and
\* failed record the recognition tasks of the current call.
InitExt ==
  [pc |-> "idle", runs |-> 0, imageData |-> NoImage, imageVariants |-> <<>>,
   regions |-> <<>>, variantResults |-> <<>>, bestVariantIndex |-> 0,
   bestTextLength |-> 0, bestConfidence |-> 0, i |-> 0, w |-> 0,
   regionTexts |-> <<>>, dispatched |-> {}, completed |-> {}, failed |-> {},
   returned |-> <<>>]

\* lines 49-57: the useState initial values
InitHook ==
  [progress |-> 0, error |-> NULL, isExtracting |-> FALSE, extractedText |-> <<>>,
   textRegions |-> <<>>, bestImageVariant |-> NoImage]

\* no function is applied on its own
NoCall == [name |-> "none"]

\* the module was imported and no component is mounted; nothing runs but
\* the function applied on its own
Imported ==
  /\ cocoModel = NULL
  /\ modelLoads = 0
  /\ workersInitialized = FALSE
  /\ scheduler = [workers |-> 0, terminated |-> FALSE]
  /\ loader = [c \in LoaderIds |-> IF c = 0 THEN "loading" ELSE "idle"]
  /\ winit = [h \in Hooks |-> [pc |-> "idle", i |-> 0]]
  /\ life = [h \in Hooks |-> "unmounted"]
  /\ hook = [h \in Hooks |-> InitHook]
  /\ ext = [h \in Hooks |-> InitExt]
  /\ productVectors = <<>>

Init ==
  /\ fn = NoCall
  /\ cocoModel = NULL
  /\ modelLoads = 0
  /\ workersInitialized = FALSE
  /\ scheduler = [workers |-> 0, terminated |-> FALSE]
     \* line 46: the module calls loadModels() when it is imported; cocoModel
     \* is null, so the call is suspended in its awaits
  /\ loader = [c \in LoaderIds |-> IF c = 0 THEN "loading" ELSE "idle"]
  /\ winit = [h \in Hooks |-> [pc |-> "idle", i |-> 0]]
  /\ life = [h \in Hooks |-> "unmounted"]
  /\ hook = [h \in Hooks |-> InitHook]
  /\ ext = [h \in Hooks |-> InitExt]
  /\ productVectors = <<>>

\* a state setter of hook instance h; React drops the update of a component
\* that is no longer mounted
SetHook(h, value) ==
  hook' = IF life[h] = "mounted" THEN [hook EXCEPT ![h] = value] ELSE hook

\* loadModels, lines 10-21, up to its first await: the position of a call
\* made now. Its two awaits (tf.setBackend, cocoSsd.load) follow each other
\* with no access to shared state in between, so they are one suspension.
LoadModelsCall == IF cocoModel = NULL THEN "loading" ELSE "done"

\* initializeWorkers, lines 29-35, up to its first await. The two awaits of
\* one iteration (createWorker, scheduler.addWorker) are one suspension.
InitializeWorkersCall ==
  IF workersInitialized THEN [pc |-> "done", i |-> 0] ELSE [pc |-> "worker", i |-> 0]

\* the catch of a preload call of loadModels: line 46 for the module's call
\* (a log), lines 61-64 for the mount effect's (a log and setError)
PreloadFailed(c) ==
  IF c \in Hooks
    THEN SetHook(c, [hook[c] EXCEPT !.error = "Failed to load text detection models"])
    ELSE UNCHANGED hook

\* lines 13-17 of a preload call settle: the model is assigned, or an await
\* rejects
LoaderLoad(c) ==
  /\ loader[c] = "loading"
  /\ loader' = [loader EXCEPT ![c] = "done"]
  /\ \/ /\ cocoModel' = "model"
        /\ modelLoads' = modelLoads + 1
        /\ UNCHANGED hook
     \/ /\ UNCHANGED <<cocoModel, modelLoads>>
        /\ PreloadFailed(c)
  /\ UNCHANGED <<workersInitialized, scheduler, winit, life, ext, fn, productVectors>>

\* lines 34-42: the awaits of iteration w.i settle: the position after them
\* (a rejection is caught and logged, and the call returns)
WorkerSettled(w, ok) ==
  IF ok /\ w.i + 1 < MAX_WORKERS THEN [pc |-> "worker", i |-> w.i + 1]
  ELSE [pc |-> "done", i |-> 0]

\* line 39, reached when the loop of initializeWorkers ran to its end
SetsInitialized(w, ok) == ok /\ w.i + 1 >= MAX_WORKERS

\* line 37 took effect: the scheduler holds one more worker
AddWorker(sched, ok) ==
  IF ok THEN [sched EXCEPT !.workers = @ + 1] ELSE sched

\* the mount effect's initializeWorkers call: the awaits of one iteration
\* settle
WinitWorker(h) ==
  /\ winit[h].pc = "worker"
  /\ \E ok \in BOOLEAN :
       /\ winit' = [winit EXCEPT ![h] = WorkerSettled(winit[h], ok)]
       /\ scheduler' = AddWorker(scheduler, ok)
       /\ workersInitialized' = (workersInitialized \/ SetsInitialized(winit[h], ok))
  /\ UNCHANGED <<cocoModel, modelLoads, loader, life, hook, ext, fn, productVectors>>

\* the effect of lines 60-70 runs when the component mounts. The page renders
\* one panel that uses the hook (Result.tsx line 193), so one instance is
\* mounted at a time.
Mount(h) ==
  /\ life[h] = "unmounted"
  /\ \A g \in Hooks : life[g] /= "mounted"
  /\ life' = [life EXCEPT ![h] = "mounted"]
  /\ loader' = [loader EXCEPT ![h] = LoadModelsCall]
  /\ winit' = [winit EXCEPT ![h] = InitializeWorkersCall]
  /\ UNCHANGED <<shared, hook, ext, fn, productVectors>>

\* the effect's cleanup, lines 72-74; the instance's state goes with it
Unmount(h) ==
  /\ life[h] = "mounted"
  /\ life' = [life EXCEPT ![h] = "gone"]
  /\ scheduler' = [scheduler EXCEPT !.terminated = TRUE]
  /\ hook' = [hook EXCEPT ![h] = InitHook]
  /\ UNCHANGED <<cocoModel, modelLoads, workersInitialized, loader, winit, ext, fn, productVectors>>

\* ------------------------------------------------- extractTextFromImage

VariantTask(i) == <<"variant", i>>

RegionTask(i) == <<"region", i>>

\* line 337
VariantProgress(i, n) == 25 + RoundDiv(i * 40, n)

\* line 346, p = m.progress in hundredths
LoggerProgressValue(p) == 25 + RoundDiv(p * 20, 100)

\* line 390
RegionProgress(i, n) == 65 + RoundDiv(i * 25, n)

\* line 396
TooSmall(region) == region.bbox[3] < MinRegionSize \/ region.bbox[4] < MinRegionSize

\* A frame is the call's locals e and the last value p given to setProgress.

\* lines 336-341: the head of the variant loop at index i, up to the await of
\* Tesseract.recognize
VariantLoop(fr, i) ==
  [e |-> [fr.e EXCEPT !.pc = "recognize", !.i = i,
                      !.dispatched = @ \cup {VariantTask(i)}],
   p |-> VariantProgress(i, Len(fr.e.imageVariants))]

\* lines 389-417: the region loop from index i on, up to the await of the
\* first region that is not skipped, or to the end of the loop
RECURSIVE RegionLoop(_, _)
RegionLoop(fr, i) ==
  IF i >= Len(fr.e.regions) THEN [fr EXCEPT !.e.pc = "aggregate"]
  ELSE
    LET p == RegionProgress(i, Len(fr.e.regions))
    IN  IF TooSmall(fr.e.regions[i + 1])
          THEN RegionLoop([fr EXCEPT !.p = p], i + 1)
          ELSE [e |-> [fr.e EXCEPT !.pc = "region", !.i = i,
                                   !.dispatched = @ \cup {RegionTask(i)}],
                p |-> p]

\* lines 380-387: after the variant loop
RegionPhase(fr, hasCtx) ==
  IF Len(fr.e.regions) > 0 /\ hasCtx
    THEN RegionLoop(fr, 0)
    ELSE [fr EXCEPT !.e.pc = "aggregate"]

\* the variant loop with its remaining recognize calls started and not
\* awaited
AfterVariant_NoAwait(fr, hasCtx) ==
  RegionPhase([fr EXCEPT !.e.dispatched =
                 @ \cup {VariantTask(i) : i \in fr.e.i + 1 .. Len(fr.e.imageVariants) - 1}],
              hasCtx)

\* line 336: the next iteration of the variant loop, or what follows it
AfterVariant(fr, hasCtx) ==
  IF fr.e.i + 1 < Len(fr.e.imageVariants)
    THEN VariantLoop(fr, fr.e.i + 1)
    ELSE RegionPhase(fr, hasCtx)

\* lines 353-373: recognize resolved with data.text and data.confidence
VariantResolved(e, data) ==
  LET text == Trim(data.text)
      confidence == data.confidence
      textQuality == Len(text) * confidence
      better == textQuality > e.bestTextLength * e.bestConfidence
  IN  [e EXCEPT !.bestTextLength = IF better THEN Len(text) ELSE @,
                !.bestConfidence = IF better THEN confidence ELSE @,
                !.bestVariantIndex = IF better THEN e.i ELSE @,
                !.variantResults = Append(@, [text |-> text, confidence |-> confidence,
                                              variant |-> e.i]),
                !.completed = @ \cup {VariantTask(e.i)}]

\* line 360: the result of variant e.i is the best so far
IsBetter(e, data) ==
  Len(Trim(data.text)) * data.confidence > e.bestTextLength * e.bestConfidence

\* a catch that leaves the variant loop instead of going on
VariantRejected_Break(e) ==
  [e EXCEPT !.failed = @ \cup {VariantTask(e.i)}, !.i = Len(e.imageVariants) - 1]

\* lines 374-377: recognize rejected; the catch logs and the loop goes on
VariantRejected(e) ==
  [e EXCEPT !.failed = @ \cup {VariantTask(e.i)}]

\* lines 418-425
RegionResolved(e, data) ==
  LET regionText == Trim(data.text)
  IN  [e EXCEPT !.regionTexts =
                   IF regionText /= <<>>
                     THEN Append(@, [bbox |-> e.regions[e.i + 1].bbox, text |-> regionText])
                     ELSE @,
                !.completed = @ \cup {RegionTask(e.i)}]

\* lines 426-429
RegionRejected(e) ==
  [e EXCEPT !.failed = @ \cup {RegionTask(e.i)}]

Running(h) == ext[h].pc \notin {"idle", "done", "failed"}

\* the call returned: its locals are gone
Returned(e, pc, text) ==
  [InitExt EXCEPT !.pc = pc, !.runs = e.runs, !.returned = text]

\* lines 300-313: the call up to `await createEnhancedImageVariants`. The
\* button that makes the call is disabled while a call is running (panel,
\* line 99), and the model runs one call at a time.
ExtractStart(h) ==
  /\ life[h] = "mounted"
  /\ \A g \in Hooks : ~Running(g)
  /\ ext[h].runs < MaxRuns
  /\ \E img \in InputImages :
       ext' = [ext EXCEPT ![h] = [InitExt EXCEPT !.pc = "variants",
                                                 !.runs = ext[h].runs + 1,
                                                 !.imageData = img]]
  /\ SetHook(h, [hook[h] EXCEPT !.isExtracting = TRUE, !.progress = 10,
                                !.error = NULL, !.textRegions = <<>>,
                                !.bestImageVariant = NoImage])
  /\ UNCHANGED <<shared, loader, winit, life, fn, productVectors>>

\* lines 517-522: the catch of extractTextFromImage
Fail(h, message) ==
  /\ ext' = [ext EXCEPT ![h] = Returned(ext[h], "failed", <<>>)]
  /\ SetHook(h, [hook[h] EXCEPT !.error = message, !.isExtracting = FALSE])

\* lines 313-317: createEnhancedImageVariants resolves
Variants(h) ==
  /\ ext[h].pc = "variants"
  /\ \E failing \in SUBSET Recipes :
       ext' = [ext EXCEPT ![h].pc = "image",
                          ![h].imageVariants =
                             CreateEnhancedImageVariants(ext[h].imageData, failing)]
  /\ SetHook(h, [hook[h] EXCEPT !.progress = 15])
  /\ UNCHANGED <<shared, loader, winit, life, fn, productVectors>>

\* lines 317-321 and 88-94: createImageElement settles; detectTextRegions runs
\* up to its first await
Image(h) ==
  /\ ext[h].pc = "image"
  /\ \/ /\ ext' = [ext EXCEPT ![h].pc =
                     IF cocoModel = NULL /\ LoadModelsCall = "loading"
                       THEN "loading" ELSE "detect"]
        /\ SetHook(h, [hook[h] EXCEPT !.progress = 20])
     \/ Fail(h, "Failed to load image")
  /\ UNCHANGED <<shared, loader, winit, life, fn, productVectors>>

\* lines 89-91: loadModels called from detectTextRegions settles
DetectLoad(h) ==
  /\ ext[h].pc = "loading"
  /\ \/ /\ ext' = [ext EXCEPT ![h].pc = "detect"]
        /\ cocoModel' = "model"
        /\ modelLoads' = modelLoads + 1
        /\ UNCHANGED hook
     \/ /\ Fail(h, "model load failed")
        /\ UNCHANGED <<cocoModel, modelLoads>>
  /\ UNCHANGED <<workersInitialized, scheduler, loader, winit, life, fn, productVectors>>

\* lines 330-337: after detectTextRegions, up to the first await that follows
AfterDetect(fr) ==
  IF ~workersInitialized
    THEN [fr EXCEPT !.e.pc = InitializeWorkersCall.pc, !.e.w = 0]
    ELSE VariantLoop(fr, 0)

\* lines 94-125 and 321-333: cocoModel.detect settles
Detect(h) ==
  /\ ext[h].pc = "detect"
  /\ \/ \E predictions \in PredictionLists, cells \in ContrastCellSets, hasCtx \in BOOLEAN :
          LET regions == detectTextRegions(predictions, cells, hasCtx, ext[h].imageData)
              fr == AfterDetect([e |-> [ext[h] EXCEPT !.regions = regions], p |-> 25])
          IN  /\ ext' = [ext EXCEPT ![h] = fr.e]
              /\ SetHook(h, [hook[h] EXCEPT !.progress = fr.p])
     \/ Fail(h, "detect failed")
  /\ UNCHANGED <<shared, loader, winit, life, fn, productVectors>>

\* lines 332-337: a step of the awaited initializeWorkers call left it at
\* w; when it returned, the variant loop starts
AfterInit(fr, w) ==
  IF w.pc = "done"
    THEN VariantLoop([fr EXCEPT !.e.w = 0], 0)
    ELSE [fr EXCEPT !.e.pc = w.pc, !.e.w = w.i]

\* initializeWorkers called from extractTextFromImage: the awaits of one
\* iteration settle
ExtWorker(h) ==
  /\ ext[h].pc = "worker"
  /\ \E ok \in BOOLEAN :
       LET w == [pc |-> "worker", i |-> ext[h].w]
           fr == AfterInit([e |-> ext[h], p |-> hook[h].progress], WorkerSettled(w, ok))
       IN  /\ ext' = [ext EXCEPT ![h] = fr.e]
           /\ SetHook(h, [hook[h] EXCEPT !.progress = fr.p])
           /\ scheduler' = AddWorker(scheduler, ok)
           /\ workersInitialized' = (workersInitialized \/ SetsInitialized(w, ok))
  /\ UNCHANGED <<cocoModel, modelLoads, loader, winit, life, fn, productVectors>>

\* lines 342-350: the recognizer's logger reports progress during a call
Logger(h) ==
  /\ ext[h].pc = "recognize"
  /\ \E p \in LoggerProgress :
       SetHook(h, [hook[h] EXCEPT !.progress =
                     IF ext[h].i = 0 THEN LoggerProgressValue(p) ELSE @])
  /\ UNCHANGED <<shared, loader, winit, life, ext, fn, productVectors>>

\* lines 341-378: the recognize call of variant i settles
Recognize(h) ==
  /\ ext[h].pc = "recognize"
  /\ \E hasCtx \in BOOLEAN :
       \/ \E data \in OcrResults :
            LET fr == AfterVariant([e |-> VariantResolved(ext[h], data),
                                    p |-> hook[h].progress], hasCtx)
            IN  /\ ext' = [ext EXCEPT ![h] = fr.e]
                /\ SetHook(h, [hook[h] EXCEPT
                      !.progress = fr.p,
                      !.bestImageVariant =
                         IF IsBetter(ext[h], data)
                           THEN ext[h].imageVariants[ext[h].i + 1] ELSE @])
       \/ LET fr == AfterVariant([e |-> VariantRejected(ext[h]),
                                  p |-> hook[h].progress], hasCtx)
          IN  /\ ext' = [ext EXCEPT ![h] = fr.e]
              /\ SetHook(h, [hook[h] EXCEPT !.progress = fr.p])
  /\ UNCHANGED <<shared, loader, winit, life, fn, productVectors>>

\* lines 402-430: the recognition of region i (its crop and its recognize
\* call, both inside the try) settles
RecognizeRegion(h) ==
  /\ ext[h].pc = "region"
  /\ \/ \E data \in OcrResults :
          LET fr == RegionLoop([e |-> RegionResolved(ext[h], data),
                                p |-> hook[h].progress], ext[h].i + 1)
          IN  /\ ext' = [ext EXCEPT ![h] = fr.e]
              /\ SetHook(h, [hook[h] EXCEPT !.progress = fr.p])
     \/ LET fr == RegionLoop([e |-> RegionRejected(ext[h]), p |-> hook[h].progress],
                             ext[h].i + 1)
        IN  /\ ext' = [ext EXCEPT ![h] = fr.e]
            /\ SetHook(h, [hook[h] EXCEPT !.progress = fr.p])
  /\ UNCHANGED <<shared, loader, winit, life, fn, productVectors>>

\* lines 434-510: finalText
FinalText(e) ==
  postProcessText(CombineText(e.variantResults, e.regionTexts, e.imageData.height))

\* lines 434-516: aggregation, post-processing and the return
Aggregate(h) ==
  /\ ext[h].pc = "aggregate"
  /\ LET e == ext[h]
     IN  /\ ext' = [ext EXCEPT ![h] = Returned(e, "done", FinalText(e))]
         /\ SetHook(h, [hook[h] EXCEPT
               !.extractedText = FinalText(e),
               !.textRegions = IF e.regionTexts /= <<>> THEN e.regionTexts ELSE @,
               !.bestImageVariant =
                  IF e.bestVariantIndex >= 0 /\ e.bestVariantIndex < Len(e.imageVariants)
                    THEN e.imageVariants[e.bestVariantIndex + 1] ELSE @,
               !.isExtracting = FALSE,
               !.progress = 100])
  /\ UNCHANGED <<shared, loader, winit, life, fn, productVectors>>

\* ----------------------------------------------------------- specification

Next ==
  \/ \E c \in LoaderIds : LoaderLoad(c)
  \/ \E h \in Hooks : Mount(h)
  \/ \E h \in Hooks : Unmount(h)
  \/ \E h \in Hooks : WinitWorker(h)
  \/ \E h \in Hooks : ExtractStart(h)
  \/ \E h \in Hooks : Variants(h)
  \/ \E h \in Hooks : Image(h)
  \/ \E h \in Hooks : DetectLoad(h)
  \/ \E h \in Hooks : Detect(h)
  \/ \E h \in Hooks : ExtWorker(h)
  \/ \E h \in Hooks : Logger(h)
  \/ \E h \in Hooks : Recognize(h)
  \/ \E h \in Hooks : RecognizeRegion(h)
  \/ \E h \in Hooks : Aggregate(h)

Spec == Init /\ [][Next]_vars

\* ------------------------------------------ one call on a settled page

\* The page after its load settled: the module's preload, the mount effect's
\* preload and the mount effect's initializeWorkers all returned, and the
\* hook is mounted. loaded: the module's preload assigned cocoModel before
\* the mount (the mount effect's loadModels then returns at line 11); else
\* both preloads rejected and line 63 set the error. k: the workers the
\* mount effect added before createWorker rejected, or MAX_WORKERS.
InitCall ==
  /\ fn = NoCall
  /\ \E loaded \in BOOLEAN, k \in 0 .. MAX_WORKERS :
       /\ cocoModel = IF loaded THEN "model" ELSE NULL
       /\ modelLoads = IF loaded THEN 1 ELSE 0
       /\ workersInitialized = (k = MAX_WORKERS)
       /\ scheduler = [workers |-> k, terminated |-> FALSE]
       /\ hook = [h \in Hooks |->
                    [InitHook EXCEPT !.error =
                       IF loaded THEN NULL
                       ELSE "Failed to load text detection models"]]
  /\ loader = [c \in LoaderIds |-> "done"]
  /\ winit = [h \in Hooks |-> [pc |-> "done", i |-> 0]]
  /\ life = [h \in Hooks |-> "mounted"]
  /\ ext = [h \in Hooks |-> InitExt]
  /\ productVectors = <<>>

\* the steps of extractTextFromImage alone
NextCall ==
  \/ \E h \in Hooks : ExtractStart(h)
  \/ \E h \in Hooks : Variants(h)
  \/ \E h \in Hooks : Image(h)
  \/ \E h \in Hooks : DetectLoad(h)
  \/ \E h \in Hooks : Detect(h)
  \/ \E h \in Hooks : ExtWorker(h)
  \/ \E h \in Hooks : Logger(h)
  \/ \E h \in Hooks : Recognize(h)
  \/ \E h \in Hooks : RecognizeRegion(h)
  \/ \E h \in Hooks : Aggregate(h)

SpecCall == InitCall /\ [][NextCall]_vars

\* -------------------------------------------------------------- properties

\* C1: within one extractTextFromImage invocation, after the initial reset,
\* the progress reported to the caller never decreases.
C1_ProgressMonotone ==
  [][\A h \in Hooks :
       (Running(h) /\ life'[h] = "mounted") => hook'[h].progress >= hook[h].progress]_vars

\* C2: every extractTextFromImage invocation reports progress 100: when the
\* call has returned, by either exit, the caller has seen 100.
C2_TerminatedReports100 ==
  \A h \in Hooks :
    (life[h] = "mounted" /\ ext[h].pc \in {"done", "failed"}) => hook[h].progress = 100

\* the variant indices of the recognition tasks in a set of tasks
VariantsIn(tasks) == {i \in 0 .. NumRecipes : VariantTask(i) \in tasks}

\* what the call holds when aggregation starts, whatever tasks failed: every
\* variant was dispatched, the variant results are those of the variant tasks
\* that resolved, once each, and once the region loop started every region
\* of recognizable size was dispatched and every region transcript is that
\* of a region task that resolved
BatchRanToItsEnd(e) ==
  /\ \A i \in 0 .. Len(e.imageVariants) - 1 : VariantTask(i) \in e.dispatched
  /\ {e.variantResults[k].variant : k \in 1 .. Len(e.variantResults)}
       = VariantsIn(e.completed)
  /\ Len(e.variantResults) = Cardinality(VariantsIn(e.completed))
  /\ (\E i \in 0 .. Len(e.regions) - 1 : RegionTask(i) \in e.dispatched) =>
       \A j \in 0 .. Len(e.regions) - 1 :
         ~TooSmall(e.regions[j + 1]) => RegionTask(j) \in e.dispatched
  /\ \A k \in 1 .. Len(e.regionTexts) :
       \E j \in 0 .. Len(e.regions) - 1 :
         /\ RegionTask(j) \in e.completed
         /\ e.regionTexts[k].bbox = e.regions[j + 1].bbox

\* C3: the step in which a recognize call settles, by throwing or not, for a
\* variant or for a region, does not take the call to its error exit and
\* does not set the error; the remaining tasks are still dispatched and
\* aggregation starts from exactly the results of the tasks that succeeded.
C3_FailedTasksDoNotAbort ==
  [][\A h \in Hooks :
       /\ (ext[h].pc \in {"recognize", "region"} /\ ext'[h] /= ext[h]) =>
            (ext'[h].pc /= "failed" /\ hook'[h].error = hook[h].error)
       /\ (ext'[h].pc = "aggregate") => BatchRanToItsEnd(ext'[h])]_vars

\* aggregation is about to start after a variant task and a region task
\* failed and another of each succeeded
C3_Witness ==
  \E h \in Hooks :
    /\ ext[h].pc = "aggregate"
    /\ \E i, j \in 0 .. NumRecipes :
         VariantTask(i) \in ext[h].failed /\ VariantTask(j) \in ext[h].completed
    /\ \E i, j \in 0 .. Len(ext[h].regions) - 1 :
         RegionTask(i) \in ext[h].failed /\ RegionTask(j) \in ext[h].completed
    /\ Len(ext[h].variantResults) = Len(ext[h].imageVariants) - 1
    /\ hook[h].error = NULL

\* no recognition task of the call yielded text
NoText(e) ==
  /\ \A k \in 1 .. Len(e.variantResults) : e.variantResults[k].text = <<>>
  /\ e.regionTexts = <<>>

\* C4: when no recognition task yields any text, the call completes with
\* the empty transcript, error is null and isExtracting is false.
C4_NoTextIsEmptySuccess ==
  [][\A h \in Hooks :
       (/\ life'[h] = "mounted"
        /\ ext[h].pc = "aggregate" /\ NoText(ext[h])
        /\ ext'[h].pc /= "aggregate") =>
         /\ ext'[h].pc = "done"
         /\ ext'[h].returned = <<>>
         /\ hook'[h].extractedText = <<>>
         /\ hook'[h].error = NULL
         /\ ~hook'[h].isExtracting]_vars

\* C5: when the detection model fails to load or to run, the call goes on
\* (with the heuristic regions) instead of taking its error exit.
C5_DetectionFailureFallsBack ==
  [][\A h \in Hooks :
       ext[h].pc \in {"loading", "detect"} => ext'[h].pc /= "failed"]_vars

\* C6: when the initializeWorkers call awaited by extractTextFromImage
\* returns without having initialized the pool, the call takes its error
\* exit and error is a message.
C6_PoolFailureFailsExtraction ==
  [][\A h \in Hooks :
       (/\ life'[h] = "mounted"
        /\ ext[h].pc = "worker" /\ ext'[h].pc /= "worker"
        /\ ~workersInitialized') =>
         (ext'[h].pc = "failed" /\ hook'[h].error /= NULL)]_vars

\* C7: under every interleaving of the module's preload, the mount effect
\* and extractTextFromImage, the detection model is loaded at most once and
\* at most MAX_WORKERS workers are added to the scheduler.
C7_SingleInitialization ==
  modelLoads <= 1 /\ scheduler.workers <= MAX_WORKERS

\* C8: after a call has returned, error is non-null exactly when the call
\* took its error exit.
C8_ErrorIffFailed ==
  \A h \in Hooks :
    (life[h] = "mounted" /\ ext[h].pc \in {"done", "failed"}) =>
      (hook[h].error /= NULL <=> ext[h].pc = "failed")

\* C9: when aggregation starts, every variant task and every region task
\* that was dispatched has completed or has been recorded as failed.
C9_AllSettledBeforeAggregation ==
  \A h \in Hooks :
    ext[h].pc = "aggregate" =>
      ext[h].dispatched = ext[h].completed \cup ext[h].failed

\* aggregation is about to start and the call dispatched variant tasks and
\* region tasks, of which some completed and some failed
C9_Witness ==
  \E h \in Hooks :
    /\ ext[h].pc = "aggregate"
    /\ Cardinality(ext[h].dispatched) >= NumRecipes + 3
    /\ \E i \in 0 .. Len(ext[h].regions) - 1 : RegionTask(i) \in ext[h].dispatched
    /\ ext[h].completed /= {}
    /\ ext[h].failed /= {}

\* C10: whatever recipes fail, createEnhancedImageVariants returns a
\* non-empty sequence whose first element is the unmodified input.
C10_VariantsNonEmptyOriginalFirst ==
  \A h \in Hooks :
    ext[h].pc \notin {"idle", "variants", "done", "failed"} =>
      /\ Len(ext[h].imageVariants) >= 1
      /\ ext[h].imageVariants[1] = ext[h].imageData

\* createEnhancedImageVariants returned after a recipe failed
C10_Witness ==
  \E h \in Hooks :
    /\ ext[h].pc = "image"
    /\ ext[h].imageData \in InputImages
    /\ Len(ext[h].imageVariants) < NumRecipes + 1

\* ------------------------------------- functions applied on their own

\* A call of one function of the module with an argument drawn from a
\* bounded set; the step of the call stores what the function returns.
Call(name, arg) == [name |-> name, arg |-> arg, done |-> FALSE]

Return(out) == [name |-> fn.name, arg |-> fn.arg, done |-> TRUE, out |-> out]

HasReturned(name) == fn.name = name /\ fn.done

\* createEnhancedImageVariants(imageData), with the recipes that reject
VariantCalls ==
  { Call("createEnhancedImageVariants", [imageData |-> img, failing |-> failing]) :
      img \in InputImages, failing \in SUBSET Recipes }

ApplyVariants ==
  /\ fn.name = "createEnhancedImageVariants" /\ ~fn.done
  /\ fn' = Return(CreateEnhancedImageVariants(fn.arg.imageData, fn.arg.failing))
  /\ UNCHANGED program

\* the variant results of lines 369-373: trimmed text, confidence and the
\* index of the variant
ResultTexts == { <<>>, <<"a">>, <<"a", "b">> }

Confidences == {0, 40, 80}

RECURSIVE ResultLists(_)
ResultLists(n) ==
  IF n = 0 THEN { <<>> }
  ELSE LET shorter == ResultLists(n - 1)
       IN  shorter \cup
           { Append(l, [text |-> t, confidence |-> c, variant |-> Len(l)]) :
               l \in {x \in shorter : Len(x) = n - 1}, t \in ResultTexts, c \in Confidences }

\* lines 437-442 and 480 on a list of variant results
BestCalls == { Call("fullImageText", l) : l \in ResultLists(MaxResults) }

ApplyBest ==
  /\ fn.name = "fullImageText" /\ ~fn.done
  /\ fn' = Return(FullImageText(fn.arg))
  /\ UNCHANGED program

\* the region results of lines 421-424 in an image 100 pixels high: the
\* bounding box of the region and its text, which is never empty
RegionResults ==
  { [bbox |-> <<0, y, 50, h>>, text |-> t] :
      y \in {10, 40, 50, 60}, h \in {20, 40}, t \in { <<"a">>, <<"b">> } }

RECURSIVE RegionResultLists(_)
RegionResultLists(n) ==
  IF n = 0 THEN { <<>> }
  ELSE LET shorter == RegionResultLists(n - 1)
       IN  shorter \cup
           { Append(l, r) : l \in {x \in shorter : Len(x) = n - 1}, r \in RegionResults }

\* lines 455-465 on a list of region results
GroupCalls ==
  { Call("groupRegions", [regionTexts |-> l, imgHeight |-> 100]) :
      l \in RegionResultLists(MaxRegionResults) }

ApplyGroup ==
  /\ fn.name = "groupRegions" /\ ~fn.done
  /\ fn' = Return([top |-> TopRegions(fn.arg.regionTexts, fn.arg.imgHeight),
                   bottom |-> BottomRegions(fn.arg.regionTexts, fn.arg.imgHeight)])
  /\ UNCHANGED program

\* lines of recognized text: blank, contained in one another, and equal up
\* to case and white space
DedupLines ==
  { <<>>, <<"a">>, <<"b">>, <<"a", "b">>, <<"A", "b">>,
    <<"A", " ", "b">>, <<"a", " ", " ", "b", " ">> }

RECURSIVE LineLists(_)
LineLists(n) ==
  IF n = 1 THEN { <<l>> : l \in DedupLines }
  ELSE LET shorter == LineLists(n - 1)
       IN  shorter \cup
           { Append(ls, l) : ls \in {x \in shorter : Len(x) = n - 1}, l \in DedupLines }

\* removeDuplicateLines(text)
DedupCalls ==
  { Call("removeDuplicateLines", Join(ls, <<"\n">>)) : ls \in LineLists(MaxLines) }

ApplyDedup ==
  /\ fn.name = "removeDuplicateLines" /\ ~fn.done
  /\ fn' = Return(removeDuplicateLines(fn.arg))
  /\ UNCHANGED program

\* words with the characters that recognition confuses
PostWords ==
  { <<"l", "2", "3">>, <<"S", "4">>, <<"I", "9">>, <<"I">>, <<"r", "n">> }

RECURSIVE WordLists(_)
WordLists(n) ==
  IF n = 1 THEN { <<w>> : w \in PostWords }
  ELSE LET shorter == WordLists(n - 1)
       IN  shorter \cup
           { Append(ws, w) : ws \in {x \in shorter : Len(x) = n - 1}, w \in PostWords }

\* postProcessText(text)
PostCalls ==
  { Call("postProcessText", Join(ws, <<" ">>)) : ws \in WordLists(MaxWords) }

ApplyPost ==
  /\ fn.name = "postProcessText" /\ ~fn.done
  /\ fn' = Return(postProcessText(fn.arg))
  /\ UNCHANGED program

\* rectangles of which some overlap, some touch and some are apart
MergeRegions ==
  { Region(0, 0, 10, 10), Region(5, 0, 20, 10), Region(20, 0, 10, 10),
    Region(30, 0, 10, 10), Region(40, 40, 5, 5) }

RECURSIVE RegionLists(_)
RegionLists(n) ==
  IF n = 0 THEN { <<>> }
  ELSE LET shorter == RegionLists(n - 1)
       IN  shorter \cup
           { Append(rs, r) : rs \in {x \in shorter : Len(x) = n - 1}, r \in MergeRegions }

\* mergeAdjacentRegions(regions)
MergeCalls == { Call("mergeAdjacentRegions", rs) : rs \in RegionLists(MaxRegions) }

ApplyMerge ==
  /\ fn.name = "mergeAdjacentRegions" /\ ~fn.done
  /\ fn' = Return(mergeAdjacentRegions(fn.arg))
  /\ UNCHANGED program

\* widths and heights of the image handed to detectTextRegions on its own
ImageSizes == {1, 4, 5, 40, 100}

\* detectTextRegions(img), with what cocoModel.detect resolves with, the
\* cells of contrast of the image and whether a 2d context is available
DetectCalls ==
  { Call("detectTextRegions",
         [predictions |-> p, cells |-> c, hasCtx |-> x,
          img |-> [data |-> "photo", recipe |-> 0, width |-> w, height |-> h]]) :
      p \in PredictionLists, c \in ContrastCellSets, x \in BOOLEAN,
      w \in ImageSizes, h \in ImageSizes }

ApplyDetect ==
  /\ fn.name = "detectTextRegions" /\ ~fn.done
  /\ fn' = Return(detectTextRegions(fn.arg.predictions, fn.arg.cells,
                                    fn.arg.hasCtx, fn.arg.img))
  /\ UNCHANGED program

\* the product catalog (lib/vectorDatabase.ts)

\* a value where the code expects an array: an array, or a value that is
\* no array (a number)
Array(items) == [isArray |-> TRUE, items |-> items]

NoArray == [isArray |-> FALSE, items |-> <<>>]

\* v.length as the loop of lines 42-49 uses it: Math.min with the undefined
\* length of a number is NaN and the body never runs
Length(v) == IF v.isArray THEN Len(v.items) ELSE 0

RECURSIVE Dot(_, _, _)
\* the sum of a[i] * b[i] over the first n dimensions
Dot(a, b, n) == IF n = 0 THEN 0 ELSE Dot(a, b, n - 1) + a[n] * b[n]

\* both magnitudes are taken over all the dimensions of their vector
cosineSimilarity_FullMagnitude(a, b) ==
  LET length == Min(Length(a), Length(b))
      aMagnitude == Dot(a.items, a.items, Length(a))
      bMagnitude == Dot(b.items, b.items, Length(b))
  IN  IF aMagnitude = 0 \/ bMagnitude = 0
      THEN [num |-> 0, den |-> 1]
      ELSE [num |-> Dot(a.items, b.items, length),
            den |-> aMagnitude * bMagnitude]

\* a similarity is kept exact, with the squares of the two magnitudes under
\* one root: the number num / sqrt(den), den > 0
cosineSimilarity(a, b) ==
  LET length == Min(Length(a), Length(b))
      dotProduct == Dot(a.items, b.items, length)
      aMagnitude == Dot(a.items, a.items, length)
      bMagnitude == Dot(b.items, b.items, length)
  IN  IF aMagnitude = 0 \/ bMagnitude = 0
      THEN [num |-> 0, den |-> 1]
      ELSE [num |-> dotProduct, den |-> aMagnitude * bMagnitude]

\* the sign of x times the square of x
SignedSquare(x) == IF x < 0 THEN 0 - x * x ELSE x * x

\* s < t as numbers
Less(s, t) == SignedSquare(s.num) * t.den < SignedSquare(t.num) * s.den

\* s = t as numbers
Same(s, t) == SignedSquare(s.num) * t.den = SignedSquare(t.num) * s.den

Components == {0 - 1, 0, 1, 2}

RECURSIVE Tuples(_)
\* the sequences of n components
Tuples(n) ==
  IF n = 0 THEN {<<>>}
  ELSE {Append(t, c) : t \in Tuples(n - 1), c \in Components}

\* the arrays of 1 to MaxDim numbers
Vectors == UNION {{Array(t) : t \in Tuples(n)} : n \in 1 .. MaxDim}

CosineCalls == {Call("cosineSimilarity", [a |-> a, b |-> b]) : a, b \in Vectors}

ApplyCosine ==
  /\ fn.name = "cosineSimilarity"
  /\ ~fn.done
  /\ fn' = Return(cosineSimilarity(fn.arg.a, fn.arg.b))
  /\ UNCHANGED program

\* lines 467-500 on the results of the variants and of the regions: no
\* full-image result, or one whose text is a line of the regions or another
CombineCalls ==
  { Call("combineText", [variantResults |-> v, regionTexts |-> l, imgHeight |-> 100]) :
      v \in {<<>>} \cup {<<[text |-> t, confidence |-> 80, variant |-> 0]>> :
                           t \in {<<>>, <<"a">>, <<"c">>}},
      l \in RegionResultLists(MaxRegionResults) }

ApplyCombine ==
  /\ fn.name = "combineText" /\ ~fn.done
  /\ fn' = Return(CombineText(fn.arg.variantResults, fn.arg.regionTexts,
                              fn.arg.imgHeight))
  /\ UNCHANGED program

\* one call of one of the functions is about to be made
InitFn ==
  /\ Imported
  /\ \/ fn \in VariantCalls
     \/ fn \in BestCalls
     \/ fn \in GroupCalls
     \/ fn \in DedupCalls
     \/ fn \in PostCalls
     \/ fn \in MergeCalls
     \/ fn \in DetectCalls
     \/ fn \in CosineCalls
     \/ fn \in CombineCalls

NextFn ==
  \/ ApplyVariants
  \/ ApplyBest
  \/ ApplyGroup
  \/ ApplyDedup
  \/ ApplyPost
  \/ ApplyMerge
  \/ ApplyDetect
  \/ ApplyCosine
  \/ ApplyCombine

SpecFn == InitFn /\ [][NextFn]_vars

\* ---------------------------------------------------- the product catalog

\* m goes before the matches of equal similarity
Insert_BeforeEqual(s, m) ==
  LET first == {i \in 1 .. Len(s) : ~Less(m.similarity, s[i].similarity)}
      at == IF first = {} THEN Len(s) + 1
            ELSE CHOOSE i \in first : \A j \in first : i <= j
  IN  SubSeq(s, 1, at - 1) \o <<m>> \o SubSeq(s, at, Len(s))

\* m is placed in the sorted list s, behind every match that the comparator
\* of line 77 does not put after it: the sort is stable
Insert(s, m) ==
  LET first == {i \in 1 .. Len(s) : Less(s[i].similarity, m.similarity)}
      at == IF first = {} THEN Len(s) + 1
            ELSE CHOOSE i \in first : \A j \in first : i <= j
  IN  SubSeq(s, 1, at - 1) \o <<m>> \o SubSeq(s, at, Len(s))

RECURSIVE Sort(_)
\* similarities.sort((a, b) => b.similarity - a.similarity)
Sort(s) ==
  IF s = <<>> THEN <<>>
  ELSE Insert(Sort(SubSeq(s, 1, Len(s) - 1)), s[Len(s)])

\* Array.prototype.slice(0, end): a negative end counts from the end of s
Slice(s, end) ==
  SubSeq(s, 1, IF end < 0 THEN Max(Len(s) + end, 0) ELSE Min(end, Len(s)))

\* the value of topK when the caller leaves it out
DefaultTopK == 3

\* the matches are left in the order of the catalog
findNearestProducts_Unsorted(queryVector, topK) ==
  Slice([i \in 1 .. Len(productVectors) |->
           [product |-> productVectors[i],
            similarity |-> cosineSimilarity(queryVector,
                                            productVectors[i].vector)]],
        topK)

findNearestProducts(queryVector, topK) ==
  LET similarities ==
        [i \in 1 .. Len(productVectors) |->
           [product |-> productVectors[i],
            similarity |-> cosineSimilarity(queryVector,
                                            productVectors[i].vector)]]
  IN  Slice(Sort(similarities), topK)

\* String(index + 1).padStart(3, '0')
PadStart(n) ==
  IF n < 10 THEN "00" \o ToString(n)
  ELSE IF n < 100 THEN "0" \o ToString(n)
  ELSE ToString(n)

\* lines 113-135: the entries pushed for the elements of data.vectors. The
\* n-th element is element n - 1 of the code; "" is a value that is absent
\* or falsy.
LoadedEntries(jsonData) ==
  [n \in 1 .. Len(jsonData.vectors.items) |->
     LET productInfo == [id |-> "P" \o PadStart(n),
                         name |-> "Product " \o ToString(n),
                         strength |-> "",
                         vector |-> jsonData.vectors.items[n]]
         products == jsonData.products
     IN  IF /\ products.isArray
            /\ n <= Len(products.items)
            /\ products.items[n].present
         THEN LET productData == products.items[n]
              IN  [productInfo EXCEPT
                     !.id = IF productData.id /= "" THEN productData.id
                            ELSE @,
                     !.name = IF productData.name /= ""
                              THEN productData.name ELSE @,
                     !.strength = productData.strength]
         ELSE productInfo]

\* the load gives up at the first element that is no array, after it
\* cleared the catalog and pushed the entries before that element
loadProductVectorsFromJSON_StopsAtMalformed(jsonData) ==
  IF ~jsonData.parses THEN productVectors
  ELSE IF ~jsonData.vectors.isArray THEN productVectors
  ELSE LET items == jsonData.vectors.items
           bad == {n \in 1 .. Len(items) : ~items[n].isArray}
           stop == IF bad = {} THEN Len(items) + 1
                   ELSE CHOOSE n \in bad : \A m \in bad : n <= m
       IN  SubSeq(LoadedEntries(jsonData), 1, stop - 1)

\* the catalog after loadProductVectorsFromJSON(jsonData). jsonData is what
\* JSON.parse makes of the text: parses is FALSE when it throws; vectors and
\* products are data.vectors and data.products.
loadProductVectorsFromJSON(jsonData) ==
  IF ~jsonData.parses THEN productVectors
  ELSE IF ~jsonData.vectors.isArray THEN productVectors
  ELSE LoadedEntries(jsonData)

\* an element of data.vectors: an array of numbers, or a number
Elements == {Array(<<1, 1>>), Array(<<1>>), Array(<<0, 1>>), NoArray}

\* an element of data.products: absent, or an object with an id, a name and
\* a strength
NoProduct == [present |-> FALSE, id |-> "", name |-> "", strength |-> ""]

ProductData ==
  {NoProduct,
   [present |-> TRUE, id |-> "P002", name |-> "Zyn Citrus", strength |-> "6mg"]}

RECURSIVE Lists(_, _)
\* the lists of n members of S
Lists(S, n) ==
  IF n = 0 THEN {<<>>} ELSE {Append(l, x) : l \in Lists(S, n - 1), x \in S}

Unparsable == [parses |-> FALSE, vectors |-> NoArray, products |-> NoArray]

\* the texts of the catalog file: one that JSON.parse rejects, values
\* without a vectors array, and vectors arrays of up to MaxVectors elements
\* with no products array or with one entry of products for each
JsonData ==
  {Unparsable, [Unparsable EXCEPT !.parses = TRUE]}
    \cup UNION {{[parses |-> TRUE, vectors |-> Array(v), products |-> p] :
                   v \in Lists(Elements, n),
                   p \in {NoArray} \cup {Array(l) : l \in Lists(ProductData, n)}} :
                n \in 0 .. MaxVectors}

QueryVectors == {e \in Elements : e.isArray}

TopKs == {0 - 1, 0, 1, 2, MaxVectors + 1}

\* loadVectorDB of ProductIdentifier.tsx got the text of the catalog file
LoadProductVectorsFromJSON(jsonData) ==
  /\ productVectors' = loadProductVectorsFromJSON(jsonData)
  /\ fn' = [name |-> "loadProductVectorsFromJSON", arg |-> jsonData,
            done |-> TRUE]
  /\ UNCHANGED extraction

\* a caller asks for the topK nearest products, or leaves topK out
FindNearestProducts(queryVector, topK, omitted) ==
  /\ fn' = [name |-> "findNearestProducts",
            arg |-> [queryVector |-> queryVector, topK |-> topK,
                     omitted |-> omitted],
            done |-> TRUE,
            out |-> findNearestProducts(queryVector, topK)]
  /\ UNCHANGED program

NextDb ==
  \/ \E jsonData \in JsonData : LoadProductVectorsFromJSON(jsonData)
  \/ \E q \in QueryVectors, k \in TopKs : FindNearestProducts(q, k, FALSE)
  \/ \E q \in QueryVectors : FindNearestProducts(q, DefaultTopK, TRUE)

\* the catalog module on its own, from its import on
SpecDb == Init /\ [][NextDb]_vars

\* ------------------------------------------- properties of the functions

\* the original followed by the renditions of the recipes that did not fail,
\* in declared order
SurvivingVariants(img, failing) ==
  LET kept == SelectSeq([r \in Recipes |-> r], LAMBDA r : r \notin failing)
  IN  <<img>> \o [k \in 1 .. Len(kept) |-> Enhance(img, kept[k])]

\* C11: createEnhancedImageVariants returns the original and the variants
\* of every recipe that did not fail; the result is the original alone only
\* when every recipe failed.
C11_RecipeFailureIsIsolated ==
  HasReturned("createEnhancedImageVariants") =>
    fn.out = SurvivingVariants(fn.arg.imageData, fn.arg.failing)

\* C12: the full-image transcript is the text of a variant result of
\* maximal quality (text length times confidence) that no earlier result
\* equals in quality; it is empty when there is no result.
C12_BestIsFirstOfMaximalQuality ==
  HasReturned("fullImageText") =>
    IF fn.arg = <<>> THEN fn.out = <<>>
    ELSE \E k \in 1 .. Len(fn.arg) :
           /\ fn.out = Trim(fn.arg[k].text)
           /\ \A j \in 1 .. Len(fn.arg) : Quality(fn.arg[j]) <= Quality(fn.arg[k])
           /\ \A j \in 1 .. k - 1 : Quality(fn.arg[j]) < Quality(fn.arg[k])

\* the best result was chosen among results of which two have the maximal
\* quality and different texts, and a later one has less
C12_Witness ==
  /\ HasReturned("fullImageText")
  /\ \E j, k, l \in 1 .. Len(fn.arg) :
       /\ j < k /\ k < l
       /\ Quality(fn.arg[j]) = Quality(fn.arg[k])
       /\ Quality(fn.arg[l]) < Quality(fn.arg[k])
       /\ Quality(fn.arg[j]) > 0
       /\ fn.arg[j].text /= fn.arg[k].text
       /\ \A m \in 1 .. Len(fn.arg) : Quality(fn.arg[m]) <= Quality(fn.arg[k])
       /\ fn.out = fn.arg[j].text

\* the vertical midpoint y + height/2 of the box lies above half the height
MidpointAbove(r, imgHeight) == 2 * r.bbox[2] + r.bbox[4] < imgHeight

\* C13: grouping is a partition by vertical midpoint: the top group holds
\* the region results whose midpoint lies above half the image height and
\* the bottom group holds all the others.
C13_GroupingPartitionsByMidpoint ==
  HasReturned("groupRegions") =>
    /\ fn.out.top =
         SelectSeq(fn.arg.regionTexts, LAMBDA r : MidpointAbove(r, fn.arg.imgHeight))
    /\ fn.out.bottom =
         SelectSeq(fn.arg.regionTexts, LAMBDA r : ~MidpointAbove(r, fn.arg.imgHeight))

\* C14: removeDuplicateLines applied to its own output returns that output.
C14_DedupIdempotent ==
  HasReturned("removeDuplicateLines") => removeDuplicateLines(fn.out) = fn.out

\* the lines of a text that are not blank, trimmed
NonBlankLines(text) ==
  LET lines == SplitLines(text)
      trimmed == [k \in 1 .. Len(lines) |-> Trim(lines[k])]
  IN  SelectSeq(trimmed, LAMBDA l : l /= <<>>)

\* two lines of which one contains the other after lowercasing and
\* collapsing white space
NearDuplicates(l1, l2) ==
  LET n1 == CollapseSpaces(ToLowerCase(l1))
      n2 == CollapseSpaces(ToLowerCase(l2))
  IN  Includes(n1, n2) \/ Includes(n2, n1)

C16_DigitContextCorrections ==
  (HasReturned("postProcessText")
     /\ fn.arg = <<"l", "2", "3", " ", "S", "4", " ", "I", "9">>) =>
    fn.out = <<"1", "2", "3", " ", "5", "4", " ", "1", "9">>

\* the regions of a list, as a set
RegionSet(regions) == { regions[k] : k \in 1 .. Len(regions) }

\* C17: mergeAdjacentRegions applied to its own output returns the same set
\* of regions.
C17_MergeIdempotent ==
  HasReturned("mergeAdjacentRegions") =>
    RegionSet(mergeAdjacentRegions(fn.out)) = RegionSet(fn.out)

\* three regions were merged into a region that is none of them
C17_Witness ==
  /\ HasReturned("mergeAdjacentRegions")
  /\ Len(fn.arg) = 3
  /\ Len(fn.out) = 1
  /\ fn.out[1] \notin RegionSet(fn.arg)

\* region r lies inside region o
Inside(r, o) ==
  /\ o.x <= r.x /\ r.x + r.width <= o.x + o.width
  /\ o.y <= r.y /\ r.y + r.height <= o.y + o.height

\* C18: in the output of mergeAdjacentRegions no two regions overlap, and
\* every input region lies inside some output region.
C18_MergeIsFixedPoint ==
  HasReturned("mergeAdjacentRegions") =>
    /\ \A j, k \in 1 .. Len(fn.out) : j /= k => ~Overlaps(fn.out[j], fn.out[k])
    /\ \A j \in 1 .. Len(fn.arg) : \E k \in 1 .. Len(fn.out) : Inside(fn.arg[j], fn.out[k])

\* detectTextRegions took the path of lines 103-122: no prediction of a
\* text class and a 2d context
FallbackUsed(arg) ==
  /\ \A k \in 1 .. Len(arg.predictions) : arg.predictions[k].class \notin TextClasses
  /\ arg.hasCtx

\* C19: whenever the fallback path is used, whatever the size of the image,
\* the regions returned include one that covers the full image.
C19_FallbackCoversFullImage ==
  (HasReturned("detectTextRegions") /\ FallbackUsed(fn.arg)) =>
    \E k \in 1 .. Len(fn.out) :
      /\ fn.out[k].bbox[1] <= 0
      /\ fn.out[k].bbox[2] <= 0
      /\ fn.out[k].bbox[1] + fn.out[k].bbox[3] >= fn.arg.img.width
      /\ fn.out[k].bbox[2] + fn.out[k].bbox[4] >= fn.arg.img.height

\* C20: every region returned by detectTextRegions, on either path, has a
\* positive width and height and lies within the image.
C20_RegionsWithinImage ==
  HasReturned("detectTextRegions") =>
    \A k \in 1 .. Len(fn.out) :
      /\ fn.out[k].bbox[3] > 0
      /\ fn.out[k].bbox[4] > 0
      /\ fn.out[k].bbox[1] >= 0
      /\ fn.out[k].bbox[2] >= 0
      /\ fn.out[k].bbox[1] + fn.out[k].bbox[3] <= fn.arg.img.width
      /\ fn.out[k].bbox[2] + fn.out[k].bbox[4] <= fn.arg.img.height

\* C24: cosineSimilarity(a, b) is the cosine of the two vectors cut to the
\* dimensions they share: it equals cosineSimilarity(b, a), it lies in
\* [-1, 1] (dot(a, b)^2 <= |a|^2 * |b|^2), and it is 0 when either cut
\* vector has zero magnitude, for vectors of unequal lengths too.
C24_CosineSymmetricBounded ==
  HasReturned("cosineSimilarity") =>
    LET a == fn.arg.a
        b == fn.arg.b
        n == Min(Len(a.items), Len(b.items))
        dot == Dot(a.items, b.items, n)
        aa == Dot(a.items, a.items, n)
        bb == Dot(b.items, b.items, n)
    IN  /\ fn.out.den > 0
        /\ fn.out.num * fn.out.num <= fn.out.den
        /\ Same(fn.out, cosineSimilarity(b, a))
        /\ IF aa = 0 \/ bb = 0
           THEN fn.out.num = 0
           ELSE Same(fn.out, [num |-> dot, den |-> aa * bb])

\* a vector that is not zero but is zero on the one dimension it shares with
\* the other vector
C24_Witness ==
  /\ HasReturned("cosineSimilarity")
  /\ fn.arg.a = Array(<<0, 1>>)
  /\ fn.arg.b = Array(<<2>>)
  /\ fn.out.num = 0

\* --------------------------------------- properties of the product catalog

\* the catalog file parses and holds a vectors array of arrays of numbers
WellFormed(jsonData) ==
  /\ jsonData.parses
  /\ jsonData.vectors.isArray
  /\ \A n \in 1 .. Len(jsonData.vectors.items) :
       jsonData.vectors.items[n].isArray

\* C21: a load is all or nothing: when the catalog data does not parse or
\* is not a vectors array of numeric arrays, the catalog after
\* loadProductVectorsFromJSON is the catalog before it; otherwise the catalog
\* is exactly the loaded entries, one for each vector and in their order.
C21_LoadAllOrNothing ==
  [][fn'.name = "loadProductVectorsFromJSON" =>
       IF WellFormed(fn'.arg)
       THEN /\ Len(productVectors') = Len(fn'.arg.vectors.items)
            /\ \A n \in 1 .. Len(productVectors') :
                 productVectors'[n].vector = fn'.arg.vectors.items[n]
       ELSE productVectors' = productVectors]_vars

\* C22: the matches findNearestProducts returns are in non-increasing order
\* of similarity, and matches of equal similarity are in the order in which
\* their entries were inserted in the catalog.
C22_RankedStable ==
  HasReturned("findNearestProducts") =>
    \E at \in [1 .. Len(fn.out) -> 1 .. Len(productVectors)] :
      /\ \A j \in 1 .. Len(fn.out) :
           fn.out[j].product = productVectors[at[j]]
      /\ \A i, j \in 1 .. Len(fn.out) :
           i < j =>
             /\ ~Less(fn.out[i].similarity, fn.out[j].similarity)
             /\ Same(fn.out[i].similarity, fn.out[j].similarity)
                  => at[i] < at[j]

\* two different entries of the same similarity were ranked
C22_Witness ==
  /\ HasReturned("findNearestProducts")
  /\ Len(fn.out) = 2
  /\ fn.out[1].product /= fn.out[2].product
  /\ fn.out[1].similarity.num > 0
  /\ Same(fn.out[1].similarity, fn.out[2].similarity)

\* C23: for every integer k and every catalog, findNearestProducts(query, k)
\* returns exactly min(k, catalogSize) matches (no match when that number is
\* not positive), with k = 3 when it is left out; on an empty catalog it
\* returns the empty list.
C23_ExactlyMinMatches ==
  HasReturned("findNearestProducts") =>
    LET k == IF fn.arg.omitted THEN 3 ELSE fn.arg.topK
    IN  Len(fn.out) = Max(0, Min(k, Len(productVectors)))

\* the entries whose vector is the query vector, which is not zero
EntriesEqualTo(q) ==
  {n \in 1 .. Len(productVectors) :
     /\ productVectors[n].vector = q
     /\ Dot(q.items, q.items, Len(q.items)) > 0}

\* v points the way of q on the dimensions the two share: the cosine is 1
SameDirection(q, v) ==
  LET n == Min(Length(q), Length(v))
      dot == Dot(q.items, v.items, n)
  IN  /\ dot > 0
      /\ dot * dot = Dot(q.items, q.items, n) * Dot(v.items, v.items, n)

GroupText(regions) == Trim(Join(Texts(regions), <<" ">>))

\* C26: when transcripts of region groups and a full-image transcript exist,
\* the combined text is the top group, the bottom group and the full-image
\* transcript in that order, separated by blank lines, passed through
\* removeDuplicateLines; when only the region groups or only the full-image
\* transcript exist they are used as they are, without deduplication; when
\* neither exists the text is empty.
C26_CombinationPolicy ==
  HasReturned("combineText") =>
    LET top == GroupText(TopRegions(fn.arg.regionTexts, fn.arg.imgHeight))
        bottom == GroupText(BottomRegions(fn.arg.regionTexts, fn.arg.imgHeight))
        full == FullImageText(fn.arg.variantResults)
        groups == SelectSeq(<<top, bottom>>, LAMBDA t : t /= <<>>)
    IN  fn.out =
          IF groups /= <<>> /\ full /= <<>>
            THEN removeDuplicateLines(Join(Append(groups, full), <<"\n", "\n">>))
          ELSE IF groups /= <<>> THEN Join(groups, <<"\n", "\n">>)
          ELSE IF full /= <<>> THEN full
          ELSE <<>>

\* a top group, a bottom group and a full-image transcript that repeats the
\* line of a group
C26_Witness ==
  /\ HasReturned("combineText")
  /\ TopRegions(fn.arg.regionTexts, fn.arg.imgHeight) /= <<>>
  /\ BottomRegions(fn.arg.regionTexts, fn.arg.imgHeight) /= <<>>
  /\ FullImageText(fn.arg.variantResults) = <<"a">>
  /\ fn.out /= <<>>

\* C27: a query interleaved with loads never sees a half-updated catalog:
\* every step that changes the catalog is a load that leaves one entry for
\* each element of the loaded vectors array, in their order, and every query
\* ranks entries of the catalog as the last step left it, all of them when
\* topK is not less than their number.
C27_QueriesSeeCompleteCatalog ==
  [][/\ productVectors' /= productVectors =>
          /\ fn'.name = "loadProductVectorsFromJSON"
          /\ fn'.arg.parses
          /\ fn'.arg.vectors.isArray
          /\ Len(productVectors') = Len(fn'.arg.vectors.items)
          /\ \A n \in 1 .. Len(productVectors') :
               productVectors'[n].vector = fn'.arg.vectors.items[n]
     /\ fn'.name = "findNearestProducts" =>
          LET ranked == {fn'.out[j].product : j \in 1 .. Len(fn'.out)}
              entries == {productVectors[n] : n \in 1 .. Len(productVectors)}
          IN  /\ ranked \subseteq entries
              /\ fn'.arg.topK >= Len(productVectors) => ranked = entries]_vars

\* a query ranked the two entries of a loaded catalog
C27_Witness ==
  /\ HasReturned("findNearestProducts")
  /\ Len(productVectors) = 2
  /\ productVectors[1] /= productVectors[2]
  /\ {fn.out[j].product : j \in 1 .. Len(fn.out)} =
       {productVectors[1], productVectors[2]}

\* C29: after the load of a well-formed catalog file, no two entries of the
\* catalog have the same id, whatever ids the products array supplies and
\* whatever entries get the synthetic ids P001, P002, ...
C29_IdsUnique ==
  (HasReturned("loadProductVectorsFromJSON") /\ WellFormed(fn.arg)) =>
    \A m, n \in 1 .. Len(productVectors) :
      productVectors[m].id = productVectors[n].id => m = n

\* ------------------------------------- properties of the extraction, continued

\* C28: the best-variant index kept by the call, from which the region crops
\* are taken and bestImageVariant is set, designates the variant whose
\* transcript is selected as the best full-image result, also when variant
\* tasks failed or every quality is 0.
C28_BestIndexIsSelectedVariant ==
  \A h \in Hooks :
    (ext[h].pc = "aggregate" /\ ext[h].variantResults /= <<>>) =>
      ReduceBest(ext[h].variantResults[1], ext[h].variantResults).variant
        = ext[h].bestVariantIndex

\* C30: in every state, workersInitialized implies that the scheduler holds
\* the MAX_WORKERS workers and was not terminated, also after a hook
\* instance unmounted.
C30_InitializedMeansLivePool ==
  workersInitialized =>
    /\ ~scheduler.terminated
    /\ scheduler.workers >= MAX_WORKERS

====
